---- MODULE Spec2Model ----
(***************************************************************************)
(* A model of heic-to-jpg-converter.js: the single-file converter          *)
(* convertHeicToJpg, the directory batch orchestrator                      *)
(* convertAllHeicInDirectory, and the command line front end.              *)
(*                                                                         *)
(* A file name is a sequence of one-character strings, a path is a         *)
(* sequence of file names (path.join of its components).  The file system  *)
(* is the set dirs of directories and the function files from the paths of *)
(* regular files to their contents.  The empty path stands for a missing   *)
(* (falsy) path argument and, as a directory, for the working directory.   *)
(***************************************************************************)
EXTENDS Integers, Sequences, FiniteSets, TLC

VARIABLES
  call,      \* the call under way: [fn, input, output, quality, recursive]
  dirs,      \* file system: the paths that are directories
  files,     \* file system: path of a regular file -> its content
  dirs0,     \* the directories when the call started
  files0,    \* the regular files when the call started
  stack,     \* convertAllHeicInDirectory: the invocations awaiting, innermost last
  log,       \* what was printed and which file-system calls were made, in order
  result,    \* "pending", "resolved" or "rejected": the state of the call's promise
  argv,      \* CLI: the arguments the script was started with
  args,      \* CLI: the args array, which the option parsing splices
  cliPc,     \* CLI: the statement the script is at
  quality,   \* CLI: the quality variable
  recursive, \* CLI: the recursive constant
  exitCode,  \* CLI: -1 while running, else the code given to process.exit
  cliCall,   \* CLI: the converter calls made, in order
  cliErr     \* CLI: the console.error lines printed

vars == <<call, dirs, files, dirs0, files0, stack, log, result,
          argv, args, cliPc, quality, recursive, exitCode, cliCall, cliErr>>

fsVars == <<call, dirs, files, dirs0, files0, stack, log, result>>
cliVars == <<argv, args, cliPc, quality, recursive, exitCode, cliCall, cliErr>>

---------------------------------------------------------------------------
(* Bounds *)

\* The longest path, in components, the file system accepts (PATH_MAX).
MaxPathLen == 4
\* The longest value of a --quality= argument.
MaxQLen == 3
\* The most arguments beside the --quality= argument.
MaxArgs == 2

---------------------------------------------------------------------------
(* Strings *)

Last(s) == s[Len(s)]
Front(s) == SubSeq(s, 1, Len(s) - 1)
Max(S) == CHOOSE x \in S : \A y \in S : y <= x

UpperToLower ==
  ("A" :> "a") @@ ("B" :> "b") @@ ("C" :> "c") @@ ("D" :> "d") @@ ("E" :> "e") @@
  ("F" :> "f") @@ ("G" :> "g") @@ ("H" :> "h") @@ ("I" :> "i") @@ ("J" :> "j") @@
  ("K" :> "k") @@ ("L" :> "l") @@ ("M" :> "m") @@ ("N" :> "n") @@ ("O" :> "o") @@
  ("P" :> "p") @@ ("Q" :> "q") @@ ("R" :> "r") @@ ("S" :> "s") @@ ("T" :> "t") @@
  ("U" :> "u") @@ ("V" :> "v") @@ ("W" :> "w") @@ ("X" :> "x") @@ ("Y" :> "y") @@
  ("Z" :> "z")

\* The i flag of a regular expression: letters compare by their lower case.
Lower(c) == IF c \in DOMAIN UpperToLower THEN UpperToLower[c] ELSE c
LowerStr(s) == [i \in 1..Len(s) |-> Lower(s[i])]

EndsWith(s, suffix) ==
  /\ Len(suffix) <= Len(s)
  /\ SubSeq(s, Len(s) - Len(suffix) + 1, Len(s)) = suffix

\* s matches /<suffix>$/i, suffix in lower case.
EndsWithCI(s, suffix) == EndsWith(LowerStr(s), suffix)

DotHeic == <<".", "h", "e", "i", "c">>
DotHeif == <<".", "h", "e", "i", "f">>
DotJpg == <<".", "j", "p", "g">>

\* path.extname of a file name: from its last dot on; empty when it has no
\* dot, when its only dot is its first character, and for "..".
Extname(name) ==
  LET dots == {i \in 1..Len(name) : name[i] = "."}
  IN IF dots = {} THEN <<>>
     ELSE IF Max(dots) = 1 THEN <<>>
     ELSE IF name = <<".", ".">> THEN <<>>
     ELSE SubSeq(name, Max(dots), Len(name))

\* path.basename(name, ext) of a file name.
Basename(name, ext) ==
  IF ext = <<>> \/ ~EndsWith(name, ext) THEN name
  ELSE IF ext = name THEN <<>>
  ELSE SubSeq(name, 1, Len(name) - Len(ext))

---------------------------------------------------------------------------
(* The file system *)

NoPath == <<>>

Join(dir, name) == Append(dir, name)

Prefixes(p) == {SubSeq(p, 1, i) : i \in 0..Len(p)}

IsDir(D, p) == p \in D
IsFile(F, p) == p \in DOMAIN F
Exists(F, D, p) == IsDir(D, p) \/ IsFile(F, p)

\* fs.mkdir(p, {recursive: true}): the error code, or "ok".
MkdirResult(F, D, p) ==
  IF Len(p) > MaxPathLen THEN "ENAMETOOLONG"
  ELSE IF IsFile(F, p) THEN "EEXIST"
  ELSE IF \E q \in Prefixes(p) : IsFile(F, q) THEN "ENOTDIR"
  ELSE "ok"

\* fs.writeFile(p, ...) succeeds: p is no directory, lies in a directory
\* and is not too long.
Writable(F, D, p) ==
  /\ p # NoPath
  /\ Len(p) <= MaxPathLen
  /\ ~IsDir(D, p)
  /\ IsDir(D, Front(p))

PutFile(F, p, c) == [x \in DOMAIN F \cup {p} |-> IF x = p THEN c ELSE F[x]]

\* The names fs.readdir(dir) returns, as a set.
Entries(F, D, dir) ==
  {Last(p) : p \in {x \in D \cup DOMAIN F : Len(x) = Len(dir) + 1 /\ Front(x) = dir}}

\* The orders fs.readdir may return a set of names in.
Perms(S) ==
  {f \in [1..Cardinality(S) -> S] : \A i, j \in DOMAIN f : i # j => f[i] # f[j]}

---------------------------------------------------------------------------
(* The log *)

Ev(ev, dir, path, out, ok, k, n, m, q, list) ==
  [ev |-> ev, dir |-> dir, path |-> path, out |-> out, ok |-> ok,
   k |-> k, n |-> n, m |-> m, q |-> q, list |-> list]

\* A file-system call (access, readFile, stat, mkdir, readdir, writeFile, utimes).
FsEv(op, path, ok) == Ev(op, NoPath, path, NoPath, ok, 0, 0, 0, 0, <<>>)
FsOps == {"access", "readFile", "stat", "mkdir", "readdir", "writeFile", "utimes"}

---------------------------------------------------------------------------
(* convertHeicToJpg *)

\* What a regular file holds: kind is "heic" (an image the codec decodes),
\* "corrupt" or "other" (the codec rejects it) or "jpeg" (a converter's
\* output); id names the image, q the quality it was encoded at.
Content(kind, id, q, mtime) == [kind |-> kind, id |-> id, q |-> q, mtime |-> mtime]

\* inputPath.replace(/\.heic$/i, '.jpg'): the match lies within the last
\* component, a path separator not being part of it.
DeriveOutputPath(inputPath) ==
  LET name == Last(inputPath)
  IN IF EndsWithCI(name, DotHeic)
     THEN Join(Front(inputPath), SubSeq(name, 1, Len(name) - Len(DotHeic)) \o DotJpg)
     ELSE inputPath

ResolveOutputPath(inputPath, outputPath) ==
  IF outputPath = NoPath THEN DeriveOutputPath(inputPath) ELSE outputPath

\* heicConvert({buffer, format: 'JPEG', quality}) returns a buffer.
CodecAccepts(content) == content.kind = "heic"

\* A variant without the try/catch: the error of fs.utimes is thrown on.
SurvivesUtimesFatal(utimesOk) == utimesOk

\* The try/catch around fs.utimes: whether the call goes on after it.
SurvivesUtimes(utimesOk) == TRUE

ConvertError(inputPath) == Ev("convert-error", NoPath, inputPath, NoPath, FALSE, 0, 0, 0, 0, <<>>)

\* One call of convertHeicToJpg on the file system (F, D); utimesOk is
\* whether fs.utimes would succeed.  The result: ok (resolved or rejected),
\* out (the value resolved with), files (the regular files afterwards) and
\* log (what the call printed and the file-system calls it made).
convertHeicToJpg(F, D, inputPath, outputPath, q, utimesOk) ==
  LET outP == ResolveOutputPath(inputPath, outputPath)
      thrown(lg) == [ok |-> FALSE, out |-> NoPath, files |-> F,
                     log |-> lg \o <<ConvertError(inputPath)>>]
      l1 == <<FsEv("access", inputPath, Exists(F, D, inputPath))>>
      l2 == l1 \o <<FsEv("readFile", inputPath, IsFile(F, inputPath))>>
      l4 == l2 \o <<FsEv("access", outP, Exists(F, D, outP))>>
               \o (IF Exists(F, D, outP)
                   THEN <<Ev("warn-overwrite", NoPath, inputPath, outP, TRUE, 0, 0, 0, 0, <<>>)>>
                   ELSE <<>>)
      l6 == l4 \o <<Ev("heicConvert", NoPath, inputPath, outP, TRUE, 0, 0, 0, q, <<>>),
                    FsEv("stat", inputPath, TRUE)>>
      l7 == l6 \o <<FsEv("writeFile", outP, Writable(F, D, outP))>>
      l8 == l7 \o <<FsEv("utimes", outP, utimesOk)>>
               \o (IF utimesOk THEN <<>>
                   ELSE <<Ev("warn-utimes", NoPath, inputPath, outP, TRUE, 0, 0, 0, 0, <<>>)>>)
  IN IF ~Exists(F, D, inputPath) THEN thrown(l1)
     ELSE IF ~IsFile(F, inputPath) THEN thrown(l2)
     ELSE IF ~CodecAccepts(F[inputPath])
       THEN thrown(l4 \o <<Ev("heicConvert", NoPath, inputPath, outP, FALSE, 0, 0, 0, q, <<>>)>>)
     ELSE IF ~Writable(F, D, outP) THEN thrown(l7)
     ELSE LET stats == F[inputPath]
              written == PutFile(F, outP, Content("jpeg", stats.id, q, "now"))
              stamped == IF utimesOk
                         THEN PutFile(F, outP, Content("jpeg", stats.id, q, stats.mtime))
                         ELSE written
          IN IF ~SurvivesUtimes(utimesOk)
             THEN [ok |-> FALSE, out |-> NoPath, files |-> stamped,
                   log |-> l8 \o <<ConvertError(inputPath)>>]
             ELSE [ok |-> TRUE, out |-> outP, files |-> stamped,
                   log |-> l8 \o <<Ev("converted", NoPath, inputPath, outP, TRUE, 0, 0, 0, q, <<>>)>>]

\* A single convertHeicToJpg call, as the module's API and the CLI's
\* single-file mode make it.
ConvertSingle ==
  /\ call.fn = "single"
  /\ result = "pending"
  /\ \E utimesOk \in BOOLEAN :
       LET r == convertHeicToJpg(files, dirs, call.input, call.output, call.quality, utimesOk)
       IN /\ files' = r.files
          /\ log' = log \o r.log
          /\ result' = IF r.ok THEN "resolved" ELSE "rejected"
  /\ UNCHANGED <<call, dirs, dirs0, files0, stack>>
  /\ UNCHANGED cliVars

---------------------------------------------------------------------------
(* convertAllHeicInDirectory *)

\* One invocation: its arguments, its locals and where it is ("begin":
\* before the validation; "run": past the enumeration).
Frame(dir, out, q, rec) ==
  [dir |-> dir, out |-> out, quality |-> q, recursive |-> rec, pc |-> "begin",
   heicFiles |-> <<>>, subdirs |-> <<>>, si |-> 1, fi |-> 1,
   completed |-> 0, failed |-> 0]

Top == stack[Len(stack)]
SetTop(f) == [stack EXCEPT ![Len(stack)] = f]

\* A variant without the isDirectory test: any path that exists passes.
ValidDirectoryNoTypeCheck(F, D, p) == Exists(F, D, p)

\* fs.stat(directoryPath) succeeds and stats.isDirectory().
ValidDirectory(F, D, p) == IsDir(D, p)

\* The filter for HEIC files: no directory, and /\.(heic|heif)$/i matches.
IsEligible(F, D, dir, name) ==
  /\ ~IsDir(D, Join(dir, name))
  /\ EndsWithCI(name, DotHeic) \/ EndsWithCI(name, DotHeif)

\* A variant that hands the output directory down as it is.
SubdirOutputPathFlat(outputDirectory, name) == outputDirectory

\* path.join(outputDirectory, subdir.name)
SubdirOutputPath(outputDirectory, name) == Join(outputDirectory, name)

\* The quality handed to the recursive call.
SubdirQuality(q) == q

\* path.basename(file, path.extname(file)) + '.jpg'
OutputFileName(file) == Basename(file, Extname(file)) \o DotJpg

\* The invocation is in the loop over the subdirectories.
InSubdirs(f) == f.pc = "run" /\ f.recursive /\ f.si <= Len(f.subdirs)
\* The invocation is past that loop.
AtFiles(f) == f.pc = "run" /\ ~InSubdirs(f)

\* The catch of every invocation awaiting, innermost first, logs the error
\* and throws it on: the call rejects.
RejectAll(lg) ==
  /\ log' = log \o lg \o
       [i \in 1..Len(stack) |->
          Ev("batch-error", stack[Len(stack) + 1 - i].dir, NoPath, NoPath, FALSE, 0, 0, 0, 0, <<>>)]
  /\ stack' = <<>>
  /\ result' = "rejected"
  /\ UNCHANGED <<dirs, files>>

\* The invocation returns to the one awaiting it, or resolves the call.
Return(lg) ==
  /\ log' = log \o lg
  /\ stack' = Front(stack)
  /\ result' = IF Len(stack) = 1 THEN "resolved" ELSE result

\* From the entry of an invocation to the end of the filtering: the
\* validation of the source, the default and the creation of the output
\* directory, the enumeration.
Begin ==
  /\ call.fn = "batch"
  /\ stack # <<>>
  /\ Top.pc = "begin"
  /\ LET f == Top
         out == IF f.out = NoPath THEN f.dir ELSE f.out
         mk == MkdirResult(files, dirs, out)
         D2 == IF mk = "ok" THEN dirs \cup Prefixes(out) ELSE dirs
         l1 == <<FsEv("stat", f.dir, Exists(files, dirs, f.dir))>>
         l2 == l1 \o <<FsEv("mkdir", out, mk = "ok")>>
         l3 == l2 \o <<FsEv("readdir", f.dir, IsDir(D2, f.dir))>>
     IN IF ~ValidDirectory(files, dirs, f.dir)
        THEN RejectAll(l1)
        ELSE IF mk \notin {"ok", "EEXIST"}
        THEN RejectAll(l2)
        ELSE IF ~IsDir(D2, f.dir)
        THEN RejectAll(l3)
        ELSE \E order \in Perms(Entries(files, D2, f.dir)) :
               /\ dirs' = D2
               /\ log' = log \o l2 \o
                    <<Ev("enumerated", f.dir, f.dir, out, TRUE, 0, 0, 0, 0, order)>>
               /\ stack' = SetTop([f EXCEPT
                    !.pc = "run",
                    !.out = out,
                    !.heicFiles = SelectSeq(order, LAMBDA n : IsEligible(files, D2, f.dir, n)),
                    !.subdirs = SelectSeq(order, LAMBDA n : IsDir(D2, Join(f.dir, n)))])
               /\ UNCHANGED <<files, result>>
  /\ UNCHANGED <<call, dirs0, files0>>
  /\ UNCHANGED cliVars

\* One turn of the loop over the subdirectories: the recursive call.
Recurse ==
  /\ call.fn = "batch"
  /\ stack # <<>>
  /\ InSubdirs(Top)
  /\ LET f == Top
         name == f.subdirs[f.si]
     IN stack' = Append(SetTop([f EXCEPT !.si = @ + 1]),
                        Frame(Join(f.dir, name), SubdirOutputPath(f.out, name),
                              SubdirQuality(f.quality), TRUE))
  /\ UNCHANGED <<call, dirs, files, dirs0, files0, log, result>>
  /\ UNCHANGED cliVars

\* No eligible file: the invocation says so and returns.
NoFiles ==
  /\ call.fn = "batch"
  /\ stack # <<>>
  /\ AtFiles(Top)
  /\ Top.heicFiles = <<>>
  /\ Return(<<Ev("nofiles", Top.dir, NoPath, NoPath, TRUE, 0, 0, 0, 0, <<>>)>>)
  /\ UNCHANGED <<call, dirs, files, dirs0, files0>>
  /\ UNCHANGED cliVars

\* A variant whose catch ends the loop at the first failure.
AfterFailureAbort(f) == [f EXCEPT !.failed = @ + 1, !.fi = Len(f.heicFiles) + 1]

\* The catch of the loop over the files.
AfterFailure(f) == [f EXCEPT !.failed = @ + 1, !.fi = @ + 1]

\* The try of the loop over the files, after convertHeicToJpg resolved.
AfterSuccess(f) == [f EXCEPT !.completed = @ + 1, !.fi = @ + 1]

\* One turn of the loop over the files.
ConvertNext ==
  /\ call.fn = "batch"
  /\ stack # <<>>
  /\ AtFiles(Top)
  /\ Top.fi <= Len(Top.heicFiles)
  /\ \E utimesOk \in BOOLEAN :
       LET f == Top
           file == f.heicFiles[f.fi]
           inputPath == Join(f.dir, file)
           outputPath == Join(f.out, OutputFileName(file))
           r == convertHeicToJpg(files, dirs, inputPath, outputPath, f.quality, utimesOk)
           found == IF f.fi = 1
                    THEN <<Ev("found", f.dir, NoPath, NoPath, TRUE, 0, Len(f.heicFiles), 0, 0, <<>>)>>
                    ELSE <<>>
           attempt == <<Ev("attempt", f.dir, inputPath, outputPath, r.ok, 0, 0, 0, f.quality, <<>>)>>
       IN /\ files' = r.files
          /\ IF r.ok
             THEN /\ stack' = SetTop(AfterSuccess(f))
                  /\ log' = log \o found \o r.log \o attempt \o
                       <<Ev("progress", f.dir, NoPath, NoPath, TRUE,
                            AfterSuccess(f).completed + AfterSuccess(f).failed,
                            Len(f.heicFiles), 0, 0, <<>>)>>
             ELSE /\ stack' = SetTop(AfterFailure(f))
                  /\ log' = log \o found \o r.log \o attempt \o
                       <<Ev("failed", f.dir, inputPath, NoPath, FALSE, 0, 0, 0, 0, <<>>)>>
  /\ UNCHANGED <<call, dirs, dirs0, files0, result>>
  /\ UNCHANGED cliVars

\* After the loop over the files: the summary, and the return.
Summary ==
  /\ call.fn = "batch"
  /\ stack # <<>>
  /\ AtFiles(Top)
  /\ Top.heicFiles # <<>>
  /\ Top.fi > Len(Top.heicFiles)
  /\ Return(<<Ev("summary", Top.dir, NoPath, Top.out, Top.failed = 0,
                 Top.completed, Len(Top.heicFiles), Top.failed, Top.quality, <<>>)>>)
  /\ UNCHANGED <<call, dirs, files, dirs0, files0>>
  /\ UNCHANGED cliVars

---------------------------------------------------------------------------
(* The calls and the file systems they start from *)

Name_d == <<"d">>
Name_s == <<"s">>
Name_t == <<"t">>
Name_o == <<"o">>
Name_x == <<"x">>
Name_out == <<"o", "u", "t">>
Name_a_heic == <<"a">> \o DotHeic
Name_a_heif == <<"a">> \o DotHeif
Name_a_HEIC == <<"a", ".", "H", "E", "I", "C">>
Name_b_heic == <<"b">> \o DotHeic
Name_c_txt == <<"c", ".", "t", "x", "t">>
Name_o_jpg == <<"o">> \o DotJpg

Qualities == {50, 90}
BatchQualities == {50}

\* The regular files of a set of <<path, kind>> pairs, those of kind
\* "absent" left out.
FilesOf(S) ==
  [p \in {x[1] : x \in {y \in S : y[2] # "absent"}} |->
     Content((CHOOSE x \in S : x[1] = p)[2], p, 0, "orig")]

\* The source tree below d: nothing, a directory s of two files, or s
\* with a directory t of one file in it.
SubTrees ==
  {[dirs |-> {}, files |-> {}]}
  \cup {[dirs |-> {<<Name_d, Name_s>>},
         files |-> {<<(<<Name_d, Name_s, Name_b_heic>>), kb>>,
                    <<(<<Name_d, Name_s, Name_c_txt>>), "other">>}]
          : kb \in {"heic", "corrupt"}}
  \cup {[dirs |-> {<<Name_d, Name_s>>, <<Name_d, Name_s, Name_t>>},
         files |-> {<<(<<Name_d, Name_s, Name_b_heic>>), "heic">>,
                    <<(<<Name_d, Name_s, Name_t, Name_a_heic>>), "heic">>}]}

\* The files directly in d.
RootFiles ==
  {{<<(<<Name_d, Name_a_heic>>), k1>>, <<(<<Name_d, Name_a_heif>>), k2>>,
    <<(<<Name_d, Name_a_HEIC>>), k3>>}
     : k1 \in {"absent", "heic", "corrupt"}, k2 \in {"absent", "heic"},
       k3 \in {"absent", "heic"}}

\* The source directories a batch is called with: d, a path that does not
\* exist, and the path of a regular file (when it is there).
Sources == {<<Name_d>>, <<Name_x>>, <<Name_d, Name_a_heic>>}

\* The output directories: none, one beside the source, a new one inside
\* the source, a subdirectory of the source, and a path inside the source
\* that may be a regular file.
Destinations ==
  {NoPath, <<Name_o>>, <<Name_d, Name_out>>, <<Name_d, Name_s>>, <<Name_d, Name_a_heif>>}

CliIdle ==
  /\ argv = <<>>
  /\ args = <<>>
  /\ cliPc = "off"
  /\ quality = 90
  /\ recursive = FALSE
  /\ exitCode = -1
  /\ cliCall = <<>>
  /\ cliErr = <<>>

InitBatch ==
  \E root \in RootFiles, sub \in SubTrees, src \in Sources, dst \in Destinations,
     q \in BatchQualities, rec \in BOOLEAN :
    /\ src # <<Name_d>> => sub.dirs = {}
    /\ dirs = {NoPath, <<Name_d>>} \cup sub.dirs
    /\ files = FilesOf(root \cup sub.files)
    /\ call = [fn |-> "batch", input |-> src, output |-> dst, quality |-> q, recursive |-> rec]
    /\ stack = <<Frame(src, dst, q, rec)>>

\* The file names a single call is given.
SingleNames ==
  {<<"x">> \o DotHeic, <<"x">> \o DotHeif,
   <<"x", ".", "H", "E", "I", "C">>, <<"x", ".", "H", "E", "I", "F">>,
   <<"x", ".", "H", "e", "i", "c">>, <<"x">> \o DotJpg, DotHeic,
   <<"h", "e", "i", "c">>, <<"x", ".", "y">> \o DotHeic}

InitSingle ==
  \E name \in SingleNames, kind \in {"absent", "heic", "corrupt"},
     outputPath \in {NoPath, <<Name_o_jpg>>, <<Name_d, <<"x">> \o DotJpg>>, <<Name_x, Name_o_jpg>>},
     old \in {"absent", "jpeg"}, q \in Qualities :
    /\ dirs = {NoPath, <<Name_d>>}
    /\ files = FilesOf({<<(<<Name_d, name>>), kind>>}
                       \cup {<<(<<Name_d, <<"x">> \o DotJpg>>), old>> : z \in {y \in {name} : y # <<"x">> \o DotJpg}})
    /\ call = [fn |-> "single", input |-> <<Name_d, name>>, output |-> outputPath,
               quality |-> q, recursive |-> FALSE]
    /\ stack = <<>>

Init ==
  /\ InitBatch \/ InitSingle
  /\ dirs0 = dirs
  /\ files0 = files
  /\ log = <<>>
  /\ result = "pending"
  /\ CliIdle

Next ==
  \/ ConvertSingle
  \/ Begin
  \/ Recurse
  \/ NoFiles
  \/ ConvertNext
  \/ Summary

Spec == Init /\ [][Next]_vars

---------------------------------------------------------------------------
(* Properties of the converter and the batch orchestrator *)

IsPrefix(p, q) == Len(p) <= Len(q) /\ SubSeq(q, 1, Len(p)) = p

\* The log lines of one kind an invocation on dir wrote.
EventsOf(kind, dir) == SelectSeq(log, LAMBDA e : e.ev = kind /\ e.dir = dir)
\* The eligible names of the enumeration of dir, in its order.
Enumerated(dir) ==
  LET e == EventsOf("enumerated", dir)[1]
  IN SelectSeq(e.list, LAMBDA n : IsEligible(files, dirs, dir, n))
SummaryEvents == {i \in DOMAIN log : log[i].ev = "summary"}

\* The output directory the top-level batch call writes to.
TopOutput == IF call.output = NoPath THEN call.input ELSE call.output

\* C1: in a batch every eligible file of a directory is attempted exactly
\* once, in enumeration order; a failed attempt leaves the loop going on
\* with the next file and the call pending; at the summary succeeded +
\* failed = n, failed being the number of failed attempts.
C1_ContinueOnError ==
  call.fn = "batch" =>
    /\ \A i \in DOMAIN stack :
         LET f == stack[i]
             att == EventsOf("attempt", f.dir)
         IN f.pc = "run" =>
              /\ result = "pending"
              /\ Len(att) = f.fi - 1
              /\ f.fi <= Len(f.heicFiles) + 1
              /\ f.heicFiles = Enumerated(f.dir)
              /\ \A j \in DOMAIN att : att[j].path = Join(f.dir, f.heicFiles[j])
              /\ f.completed + f.failed = Len(att)
              /\ f.failed = Len(SelectSeq(att, LAMBDA e : ~e.ok))
    /\ \A i \in SummaryEvents :
         LET s == log[i]
             att == EventsOf("attempt", s.dir)
             found == Enumerated(s.dir)
         IN /\ s.n = Len(found)
            /\ Len(att) = s.n
            /\ \A j \in DOMAIN att : att[j].path = Join(s.dir, found[j])
            /\ s.k + s.m = s.n
            /\ s.m = Len(SelectSeq(att, LAMBDA e : ~e.ok))

\* A directory of three eligible files whose first or second attempt
\* failed and a later one succeeded has reported its summary.
C1_Witness ==
  /\ call.fn = "batch"
  /\ \E i \in SummaryEvents :
       LET att == EventsOf("attempt", log[i].dir)
       IN /\ log[i].n = 3
          /\ log[i].m >= 1
          /\ \E j, k \in DOMAIN att : j < k /\ ~att[j].ok /\ att[k].ok

\* C2: a batch of n eligible files emits exactly n progress lines, one
\* after each attempt, successful or failed, counting 1, 2, ..., n.
C2_ProgressAfterEachAttempt ==
  call.fn = "batch" =>
    \A i \in SummaryEvents :
      LET prog == EventsOf("progress", log[i].dir)
      IN /\ Len(prog) = log[i].n
         /\ \A j \in DOMAIN prog : prog[j].k = j /\ prog[j].n = log[i].n

\* The input's name ends in .heic or .heif, in either case.
HasHeicExtension(path) ==
  EndsWithCI(Last(path), DotHeic) \/ EndsWithCI(Last(path), DotHeif)
\* The path with the five characters of that extension replaced by .jpg.
WithJpgExtension(path) ==
  Join(Front(path), SubSeq(Last(path), 1, Len(Last(path)) - 5) \o DotJpg)

\* C3: without an output path, the output path of an input ending in
\* .heic or .heif (in either case) is the input path with that extension
\* replaced by .jpg.
C3_DerivedOutputPath ==
  (call.fn = "single" /\ call.output = NoPath /\ HasHeicExtension(call.input)) =>
    \A i \in DOMAIN log :
      log[i].ev \in {"heicConvert", "converted"} => log[i].out = WithJpgExtension(call.input)

\* C5: a failed fs.utimes after the output was written is followed by a
\* warning and by the call resolving with the output path; in a batch the
\* attempt counts as a success.
C5_TimestampFailureIsWarning ==
  \A i \in DOMAIN log :
    (log[i].ev = "utimes" /\ ~log[i].ok) =>
      /\ log[i - 1].ev = "writeFile" /\ log[i - 1].ok
      /\ log[i + 1].ev = "warn-utimes"
      /\ log[i + 2].ev = "converted"
      /\ log[i + 2].out = log[i].path
      /\ IsFile(files0, log[i].path) \/ log[i].path \in DOMAIN files
      /\ call.fn = "single" => result = "resolved"
      /\ call.fn = "batch" =>
           /\ log[i + 3].ev = "attempt" /\ log[i + 3].ok
           /\ log[i + 3].out = log[i].path
           /\ log[i + 4].ev = "progress"

\* A batch whose fs.utimes failed has reported a summary without failures
\* for that directory.
C5_Witness ==
  /\ call.fn = "batch"
  /\ \E i \in DOMAIN log, j \in SummaryEvents :
       /\ log[i].ev = "utimes" /\ ~log[i].ok
       /\ Front(log[i].path) = log[j].out
       /\ log[j].m = 0
       /\ i < j

\* C6: a batch whose source does not exist or is no directory rejects
\* after the fs.stat of the source alone, the file system unchanged: no
\* mkdir, no enumeration, no file read, converted or written.
C6_InvalidSourceRejects ==
  (call.fn = "batch" /\ ~IsDir(dirs0, call.input)) =>
    /\ dirs = dirs0
    /\ files = files0
    /\ result # "resolved"
    /\ result = "pending" => log = <<>>
    /\ \A i \in DOMAIN log : log[i].ev \in {"stat", "batch-error"}
    /\ result = "rejected" => Len(log) = 2

\* A batch on a regular file, with an output directory that does not
\* exist, has rejected.
C6_Witness ==
  /\ call.fn = "batch"
  /\ IsFile(files0, call.input)
  /\ call.output # NoPath
  /\ ~Exists(files0, dirs0, call.output)
  /\ result = "rejected"

\* The eligible files directly in dir when the call started.
EligibleIn(dir) ==
  {p \in DOMAIN files0 : Front(p) = dir /\ IsEligible(files0, dirs0, dir, Last(p))}

\* C7: a recursive batch converts a file at relative path p under the
\* source into the directory at p under the destination, at the quality
\* of the call; the summary of a directory counts the eligible files
\* directly in it and their attempts only; once the call has resolved,
\* every eligible file of the source tree has been attempted.
C7_MirrorsStructure ==
  (call.fn = "batch" /\ call.recursive) =>
    /\ \A i \in DOMAIN log :
         log[i].ev = "attempt" =>
           LET e == log[i]
               rel == SubSeq(e.dir, Len(call.input) + 1, Len(e.dir))
           IN /\ IsPrefix(call.input, e.dir)
              /\ Front(e.path) = e.dir
              /\ Front(e.out) = TopOutput \o rel
              /\ e.q = call.quality
              /\ e.ok => e.out \in DOMAIN files /\ files[e.out].q = call.quality
    /\ \A i \in SummaryEvents :
         LET s == log[i]
             att == EventsOf("attempt", s.dir)
         IN /\ s.n = Cardinality(EligibleIn(s.dir))
            /\ s.k = Len(SelectSeq(att, LAMBDA e : e.ok))
            /\ s.m = Len(SelectSeq(att, LAMBDA e : ~e.ok))
            /\ \A j \in DOMAIN att : att[j].path \in EligibleIn(s.dir)
    /\ result = "resolved" =>
         \A p \in DOMAIN files0 :
           (IsPrefix(call.input, p) /\ p \in EligibleIn(Front(p))) =>
             \E i \in DOMAIN log : log[i].ev = "attempt" /\ log[i].path = p

\* A recursive batch into a directory beside the source has resolved,
\* having converted a file two levels down into the directory two levels
\* down the destination, and the summaries of the source and of that
\* directory differ.
C7_Witness ==
  /\ call.fn = "batch" /\ call.recursive
  /\ result = "resolved"
  /\ call.output = <<Name_o>>
  /\ \E i \in DOMAIN log, j, k \in SummaryEvents :
       /\ log[i].ev = "attempt" /\ log[i].ok
       /\ log[i].dir = <<Name_d, Name_s, Name_t>>
       /\ Front(log[i].out) = <<Name_o, Name_s, Name_t>>
       /\ log[j].dir = <<Name_d>>
       /\ log[k].dir = <<Name_d, Name_s, Name_t>>
       /\ log[j].k # log[k].k
       /\ log[j].m # log[k].m

\* The height of the source tree once the destination of the call is
\* created: the longest chain of directories below the source among those
\* the call started with and the destination with the directories leading
\* to it.
SourceHeight ==
  Max({0} \cup {Len(d) - Len(call.input) :
                  d \in {x \in dirs0 \cup Prefixes(TopOutput) : IsPrefix(call.input, x)}})

\* C8: a recursive batch terminates for every finite source tree and every
\* destination, one inside the source tree too: it descends only into the
\* directories of the source tree and into the destination it was given,
\* which bounds the invocations awaiting by the height of that tree, plus
\* one for the source itself.  (The file system's limit on the length of a
\* path, MaxPathLen here, is what ends a descent that goes further.)
C8_RecursionBoundedByTree ==
  call.fn = "batch" => Len(stack) <= SourceHeight + 1

\* C9: a single call without an output path leaves its input file as it
\* was, whether it resolves or rejects: the output path it writes to is
\* another path.  (Stated for the inputs the converter is documented for,
\* those named .heic or .heif; the claim is about every input path.)
C9_InputUntouched ==
  (/\ call.fn = "single" /\ call.output = NoPath /\ result # "pending"
   /\ HasHeicExtension(call.input)) =>
    /\ \A i \in DOMAIN log : log[i].ev = "writeFile" => log[i].path # call.input
    /\ IsFile(files0, call.input) =>
         IsFile(files, call.input) /\ files[call.input] = files0[call.input]

\* C10: in one directory of a batch, two eligible files are written to two
\* output paths, so the successes of the summary are as many as the
\* output files produced.
C10_DistinctOutputs ==
  call.fn = "batch" =>
    /\ \A i, j \in DOMAIN log :
         (/\ log[i].ev = "attempt" /\ log[j].ev = "attempt"
          /\ log[i].dir = log[j].dir /\ log[i].path # log[j].path)
           => log[i].out # log[j].out
    /\ \A i \in SummaryEvents :
         LET att == EventsOf("attempt", log[i].dir)
         IN log[i].k = Cardinality({att[j].out : j \in {x \in DOMAIN att : att[x].ok}})

---------------------------------------------------------------------------
(* The command line interface *)

\* An argument: t is "--help", "-h", "--recursive", "--dir", "--quality="
\* (any argument starting with --quality=) or "path" (any other); v is what
\* split('=')[1] gives of a --quality= argument, else the text of a path.
Token(t, v) == [t |-> t, v |-> v]
Undefined == Token("undefined", <<>>)

Digits ==
  ("0" :> 0) @@ ("1" :> 1) @@ ("2" :> 2) @@ ("3" :> 3) @@ ("4" :> 4) @@
  ("5" :> 5) @@ ("6" :> 6) @@ ("7" :> 7) @@ ("8" :> 8) @@ ("9" :> 9)
IsDigit(c) == c \in DOMAIN Digits
WhiteSpace == {" "}

\* The number the digits s[i..j] read as, in base 10.
RECURSIVE NumVal(_, _, _)
NumVal(s, i, j) == IF j < i THEN 0 ELSE 10 * NumVal(s, i, j - 1) + Digits[s[j]]

\* parseInt(s, 10): leading white space is skipped, a sign is read, then
\* the digits up to the first character that is none; NaN without a digit.
ParseInt(s) ==
  LET ws == {i \in 1..Len(s) : \A j \in 1..i : s[j] \in WhiteSpace}
      start == IF ws = {} THEN 1 ELSE Max(ws) + 1
      signed == start <= Len(s) /\ s[start] \in {"-", "+"}
      first == IF signed THEN start + 1 ELSE start
      run == {j \in first..Len(s) : \A k \in first..j : IsDigit(s[k])}
  IN IF run = {} THEN [nan |-> TRUE, val |-> 0]
     ELSE [nan |-> FALSE,
           val |-> IF signed /\ s[start] = "-"
                   THEN 0 - NumVal(s, first, Max(run))
                   ELSE NumVal(s, first, Max(run))]

\* !isNaN(qualityValue) && qualityValue >= 1 && qualityValue <= 100
QualityAccepted(v) ==
  LET n == ParseInt(v) IN ~n.nan /\ n.val >= 1 /\ n.val <= 100

Includes(a, t) == \E i \in DOMAIN a : a[i].t = t
\* a.indexOf / a.find: the first index of an argument of kind t.
IndexOf(a, t) == CHOOSE i \in DOMAIN a : a[i].t = t /\ \A j \in 1..(i - 1) : a[j].t # t
\* a.splice(i, 1)
Splice(a, i) == SubSeq(a, 1, i - 1) \o SubSeq(a, i + 1, Len(a))
\* a[i], counted from 1
At(a, i) == IF i \in DOMAIN a THEN a[i] ELSE Undefined

HelpRequested(a) == Includes(a, "--help") \/ Includes(a, "-h")

Exit(code) ==
  /\ exitCode' = code
  /\ cliPc' = "exited"

\* The help: no argument, or --help or -h among them.
CliHelp ==
  /\ cliPc = "start"
  /\ IF Len(args) < 1 \/ HelpRequested(args)
     THEN Exit(IF HelpRequested(args) THEN 0 ELSE 1)
     ELSE cliPc' = "quality" /\ UNCHANGED exitCode
  /\ UNCHANGED <<argv, args, quality, recursive, cliCall, cliErr>>
  /\ UNCHANGED fsVars

\* Parse quality option
CliQuality ==
  /\ cliPc = "quality"
  /\ IF ~Includes(args, "--quality=")
     THEN /\ cliPc' = "recursive"
          /\ UNCHANGED <<args, quality, exitCode, cliErr>>
     ELSE LET i == IndexOf(args, "--quality=")
          IN IF QualityAccepted(args[i].v)
             THEN /\ quality' = ParseInt(args[i].v).val
                  /\ args' = Splice(args, i)
                  /\ cliPc' = "recursive"
                  /\ UNCHANGED <<exitCode, cliErr>>
             ELSE /\ cliErr' = Append(cliErr, "Invalid quality value")
                  /\ Exit(1)
                  /\ UNCHANGED <<args, quality>>
  /\ UNCHANGED <<argv, recursive, cliCall>>
  /\ UNCHANGED fsVars

\* Parse recursive option
CliRecursive ==
  /\ cliPc = "recursive"
  /\ recursive' = Includes(args, "--recursive")
  /\ args' = IF Includes(args, "--recursive")
             THEN Splice(args, IndexOf(args, "--recursive"))
             ELSE args
  /\ cliPc' = "dispatch"
  /\ UNCHANGED <<argv, quality, exitCode, cliCall, cliErr>>
  /\ UNCHANGED fsVars

\* The call of convertAllHeicInDirectory or of convertHeicToJpg.
CliDispatch ==
  /\ cliPc = "dispatch"
  /\ IF At(args, 1).t = "--dir"
     THEN IF At(args, 2) = Undefined
          THEN /\ cliErr' = Append(cliErr, "Input directory is required")
               /\ Exit(1)
               /\ UNCHANGED cliCall
          ELSE /\ cliCall' = Append(cliCall,
                    [fn |-> "batch", input |-> At(args, 2), output |-> At(args, 3),
                     quality |-> quality, recursive |-> recursive])
               /\ cliPc' = "called"
               /\ UNCHANGED <<exitCode, cliErr>>
     ELSE /\ cliCall' = Append(cliCall,
               [fn |-> "single", input |-> At(args, 1), output |-> At(args, 2),
                quality |-> quality, recursive |-> FALSE])
          /\ cliPc' = "called"
          /\ UNCHANGED <<exitCode, cliErr>>
  /\ UNCHANGED <<argv, args, quality, recursive>>
  /\ UNCHANGED fsVars

\* The promise of the call settles, as the file system has it: resolved,
\* the process ends with code 0; rejected, the .catch exits with code 1.
\* A convertHeicToJpg without an input path rejects: fs.access throws.
CliSettled ==
  /\ cliPc = "called"
  /\ \E rejected \in BOOLEAN :
       /\ Last(cliCall).input = Undefined => rejected
       /\ IF rejected
          THEN cliErr' = Append(cliErr, "Fatal error") /\ Exit(1)
          ELSE cliErr' = cliErr /\ Exit(0)
  /\ UNCHANGED <<argv, args, quality, recursive, cliCall>>
  /\ UNCHANGED fsVars

\* The characters of the values of --quality= arguments.
QChars == {"0", "1", "5", "a", "-", ".", " "}
QValues == UNION {[1..n -> QChars] : n \in 0..MaxQLen}

\* The arguments beside --quality=.
PlainTokens ==
  {Token("--help", <<>>), Token("-h", <<>>), Token("--recursive", <<>>),
   Token("--dir", <<>>), Token("path", Name_a_heic)}

\* The command lines: up to MaxArgs plain arguments, with no --quality=
\* argument, or with one at any place.
CommandLines ==
  LET plain == UNION {[1..n -> PlainTokens] : n \in 0..MaxArgs}
  IN plain \cup
     {SubSeq(a, 1, i) \o <<Token("--quality=", v)>> \o SubSeq(a, i + 1, Len(a)) :
        <<a, i>> \in {x \in plain \X (0..MaxArgs) : x[2] <= Len(x[1])}, v \in QValues}

InitCli ==
  /\ argv \in CommandLines
  /\ args = argv
  /\ cliPc = "start"
  /\ quality = 90
  /\ recursive = FALSE
  /\ exitCode = -1
  /\ cliCall = <<>>
  /\ cliErr = <<>>
  /\ call = [fn |-> "none", input |-> NoPath, output |-> NoPath, quality |-> 0,
             recursive |-> FALSE]
  /\ dirs = {NoPath}
  /\ files = <<>>
  /\ dirs0 = dirs
  /\ files0 = files
  /\ stack = <<>>
  /\ log = <<>>
  /\ result = "pending"

NextCli ==
  \/ CliHelp
  \/ CliQuality
  \/ CliRecursive
  \/ CliDispatch
  \/ CliSettled

SpecCli == InitCli /\ [][NextCli]_vars

\* The value of the first --quality= argument is the decimal numeral of an
\* integer in 1..100.
IsIntegerInRange(v) ==
  /\ v # <<>>
  /\ \A i \in DOMAIN v : IsDigit(v[i])
  /\ NumVal(v, 1, Len(v)) \in 1..100

\* C4: a --quality= value that is no integer in 1..100 makes the script
\* print an error and exit with code 1 before any file-system operation:
\* no converter is called on a path (the converters are the only code that
\* touches the file system, and a converter called without an input path
\* touches none); only integers in 1..100 reach a converter.  (Stated for
\* the command lines that do not ask for help.)
C4_InvalidQualityRejected ==
  /\ \A i \in DOMAIN cliCall : cliCall[i].quality \in 1..100
  /\ (/\ Includes(argv, "--quality=")
      /\ ~IsIntegerInRange(argv[IndexOf(argv, "--quality=")].v)
      /\ ~HelpRequested(argv)) =>
       /\ \A i \in DOMAIN cliCall : cliCall[i].input = Undefined
       /\ cliPc = "exited" => exitCode = 1 /\ cliErr # <<>>

====
